---- MODULE Spec2Model ----
(***************************************************************************)
(* The Netlify provider of dnscontrol (providers/netlify/netlifyProvider.go)*)
(* as a state machine: the provider's zone list and record store, the      *)
(* desired configuration dc, the correction list returned by               *)
(* GetDomainCorrections with the variables its closures captured, and an   *)
(* orchestrator that executes the corrections one at a time, in list      *)
(* order, and skips the rest of a pass once a provider call has failed.    *)
(***************************************************************************)
EXTENDS Integers, Sequences, FiniteSets, TLC

VARIABLES
    zones,        \* provider: payload of the zone-list call, a sequence of [Name, ID]
    store,        \* provider: the native records of zone MainZoneID, in list order
    nextID,       \* provider: identifier given to the next created record
    dc,           \* the desired configuration passed to GetDomainCorrections
    zr,           \* result of the last GetZoneRecords (direct, or inside GetDomainCorrections)
    gdc,          \* result of the last GetDomainCorrections: its error and the diff it saw
    corrections,  \* the correction list returned by the last GetDomainCorrections
    heap,         \* the variables captured by the closures of `corrections`
    pc,           \* index of the next correction the orchestrator executes
    sent,         \* the provider calls issued by executed corrections of this pass
    pass,         \* number of GetDomainCorrections calls so far
    prev,         \* how the previous pass ended: "none", "failed" (no list returned),
                  \* "complete" (every call made and successful) or "partial"
    api,          \* what newNetlify returned: the provider, or the error
    rt            \* a record on its way through the Record Translator and back

vars == <<zones, store, nextID, dc, zr, gdc, corrections, heap, pc, sent, pass, prev, api, rt>>

-----------------------------------------------------------------------------
(* Bounds of the model *)

MaxDesired == 2     \* most records in dc.Records
MaxLive == 2        \* most records in the live zone at the start
MaxPasses == 2      \* most GetDomainCorrections calls in one behaviour

-----------------------------------------------------------------------------
(* Values *)

NoErr == "nil"
NoRecord == [nil |-> TRUE]
TransportErr == "transport error"
DiffErr == "diff error"

ZoneName == "e.c"
MainZoneID == "z1"
OtherZoneID == "z2"

\* The model's alphabet has one upper-case letter.
LowerChar(c) == IF c = "E" THEN "e" ELSE c

RECURSIVE ToLower(_)
ToLower(s) ==
    IF Len(s) = 0 THEN ""
    ELSE LowerChar(SubSeq(s, 1, 1)) \o ToLower(SubSeq(s, 2, Len(s)))

HasSuffix(s, suf) ==
    /\ Len(s) >= Len(suf)
    /\ SubSeq(s, Len(s) - Len(suf) + 1, Len(s)) = suf

IsFqdn(s) == HasSuffix(s, ".")

\* dnsutil.AddOrigin
AddOrigin(s, origin) ==
    IF IsFqdn(s) THEN s
    ELSE IF origin = "" THEN s
    ELSE IF s = "@" \/ s = "" THEN origin
    ELSE IF origin = "." THEN s \o "."
    ELSE s \o "." \o origin

FirstIndex(s, ok) ==
    IF \E i \in 1..Len(s) : ok[i]
    THEN CHOOSE i \in 1..Len(s) : ok[i] /\ \A j \in 1..(i - 1) : ~ok[j]
    ELSE 0

RemoveAt(s, i) == SubSeq(s, 1, i - 1) \o SubSeq(s, i + 1, Len(s))

-----------------------------------------------------------------------------
(* models.RecordConfig and its setters *)

RecordConfig(type, ttl, mx, srv, original, tag, flag) ==
    [Type |-> type, Name |-> "", NameFQDN |-> "", target |-> "",
     TTL |-> ttl, MxPreference |-> mx,
     SrvPriority |-> srv, SrvWeight |-> 0, SrvPort |-> 0,
     CaaTag |-> tag, CaaFlag |-> flag,
     TxtStrings |-> <<>>, Original |-> original]

\* strings.TrimSuffix(fqdn, ".") in lower case
TrimDot(fqdn) ==
    ToLower(IF IsFqdn(fqdn) THEN SubSeq(fqdn, 1, Len(fqdn) - 1) ELSE fqdn)

\* The label of name f relative to origin o, "@" at the apex.
LabelOf(f, o) ==
    IF f = o THEN "@"
    ELSE IF HasSuffix(f, "." \o o) THEN SubSeq(f, 1, Len(f) - Len(o) - 1)
    ELSE f

SetLabel(rc, label, o) ==
    [rc EXCEPT !.Name = label,
               !.NameFQDN = IF label = "@" THEN o ELSE label \o "." \o o]

\* RecordConfig.SetLabelFromFQDN
SetLabelFromFQDN(rc, fqdn, origin) ==
    SetLabel(rc, LabelOf(TrimDot(fqdn), ToLower(origin)), ToLower(origin))

SetTarget(rc, target) == [rc EXCEPT !.target = target]

SetTargetTXTString(rc, s) == [rc EXCEPT !.target = s, !.TxtStrings = <<s>>]

GetTargetField(rc) == rc.target

\* A record of the desired configuration: no Original.
DesiredRecord(type, label, target, ttl, mx) ==
    SetTarget(
        SetLabelFromFQDN(RecordConfig(type, ttl, mx, 0, NoRecord, "", 0),
                         AddOrigin(label, ZoneName), ZoneName),
        target)

\* netlifyModels.DNSRecord, as the records-list call returns it
DNSRecord(id, hostname, type, value, ttl, priority, managed) ==
    [ID |-> id, Hostname |-> hostname, Type |-> type, Value |-> value,
     TTL |-> ttl, Priority |-> priority, Weight |-> 0, Port |-> 0,
     Flag |-> 0, Tag |-> "", Managed |-> managed]

-----------------------------------------------------------------------------
(* Record Translator *)

IsUnmanagedNever(r) == FALSE

IsUnmanaged(r) == ~r.Managed

IsRelationalType(t) == t = "CNAME" \/ t = "MX" \/ t = "NS" \/ t = "SRV"

MakeTargetFQDNKeepAt(domain, type, value) ==
    IF IsRelationalType(type)
    THEN (IF value = "." THEN "" ELSE value) \o "."
    ELSE value

MakeTargetFQDNRootEmpty(domain, type, value) ==
    IF IsRelationalType(type)
    THEN (IF value = "@" THEN domain \o "."
          ELSE IF value = "." THEN ""
          ELSE value \o ".")
    ELSE value

MakeTargetFQDN(domain, type, value) ==
    IF IsRelationalType(type)
    THEN (IF value = "@" THEN domain
          ELSE IF value = "." THEN ""
          ELSE value) \o "."
    ELSE value

\* Go's conversions of an int64. The integers of the model are non-negative
\* and below 2^31, where uint32() changes nothing.
Uint32(v) == v

Uint16(v) == v % (2 ^ 16)

Uint8(v) == v % (2 ^ 8)

\* The RecordConfig recordToNative builds from a managed native record.
NativeRecordConfig(domain, r, target) ==
    SetTarget(
        SetLabelFromFQDN(
            RecordConfig(r.Type, Uint32(r.TTL), Uint16(r.Priority),
                         Uint16(r.Priority), r, r.Tag, Uint8(r.Flag)),
            r.Hostname, domain),
        target)

TxtCase(rc) == IF rc.Type = "TXT" THEN SetTargetTXTString(rc, rc.target) ELSE rc

recordToNative(domain, r) ==
    IF IsUnmanaged(r)
    THEN [rc |-> NoRecord, err |-> r.Hostname \o " is not managed by Netlify"]
    ELSE [rc |-> TxtCase(NativeRecordConfig(domain, r,
                     MakeTargetFQDN(domain, r.Type, r.Value))),
          err |-> NoErr]

\* netlifyModels.DNSRecordCreate; toReq does not set its TTL field, which
\* keeps Go's zero value.
toReq(d, rc) ==
    [Type |-> rc.Type,
     Hostname |-> AddOrigin(rc.Name, d.Name),
     Value |-> GetTargetField(rc),
     TTL |-> 0,
     Priority |-> rc.SrvPriority,
     Weight |-> rc.SrvWeight,
     Port |-> rc.SrvPort,
     Flag |-> rc.CaaFlag,
     Tag |-> rc.CaaTag]

-----------------------------------------------------------------------------
(* Normalisation of the two record collections *)

\* IDNA ToASCII. Every name of the model is ASCII, which ToASCII returns
\* as it is.
ToASCII(s) == s

\* DomainConfig.Punycode: the zone name, and the names and relational
\* targets of dc.Records, in their ASCII form; it rewrites dc in place.
Punycode(d) ==
    [Name |-> ToASCII(d.Name),
     Records |-> [i \in 1..Len(d.Records) |->
        LET rc == d.Records[i]
        IN [rc EXCEPT !.NameFQDN = ToASCII(@),
                      !.target = IF IsRelationalType(rc.Type) THEN ToASCII(@) ELSE @]]]

\* models.PostProcessRecords: names and relational targets in lower case,
\* and a TXT record without strings gets its target as its one string.
PostProcessRecords(recs) ==
    [i \in 1..Len(recs) |->
        LET rc == recs[i]
        IN [rc EXCEPT !.Name = ToLower(@),
                      !.NameFQDN = ToLower(@),
                      !.target = IF IsRelationalType(rc.Type) THEN ToLower(@) ELSE @,
                      !.TxtStrings = IF rc.Type = "TXT" /\ @ = <<>>
                                     THEN <<rc.target>> ELSE @]]

TxtChunkSize == 255

RECURSIVE SplitChunks(_)
SplitChunks(s) ==
    IF Len(s) <= TxtChunkSize THEN <<s>>
    ELSE <<SubSeq(s, 1, TxtChunkSize)>> \o SplitChunks(SubSeq(s, TxtChunkSize + 1, Len(s)))

\* txtutil.SplitSingleLongTxt: a TXT record holding one string longer than
\* the chunk size gets that string split; it rewrites the records in place.
SplitSingleLongTxt(recs) ==
    [i \in 1..Len(recs) |->
        LET rc == recs[i]
        IN IF rc.Type = "TXT" /\ Len(rc.TxtStrings) = 1
              /\ Len(rc.TxtStrings[1]) > TxtChunkSize
           THEN [rc EXCEPT !.TxtStrings = SplitChunks(rc.TxtStrings[1])]
           ELSE rc]

-----------------------------------------------------------------------------
(* diff.IncrementalDiff: the set-difference primitive (spec section 4.2) *)

\* The slot of a record.
Key(rc) == <<rc.NameFQDN, rc.Type>>

\* The semantic fields compared inside a slot.
Content(rc) ==
    [target |-> rc.target, TTL |-> rc.TTL,
     mx |-> IF rc.Type = "MX" THEN rc.MxPreference ELSE 0,
     srv |-> IF rc.Type = "SRV"
             THEN <<rc.SrvPriority, rc.SrvWeight, rc.SrvPort>> ELSE <<>>,
     caa |-> IF rc.Type = "CAA" THEN <<rc.CaaTag, rc.CaaFlag>> ELSE <<>>,
     txt |-> IF rc.Type = "TXT" THEN rc.TxtStrings ELSE <<>>]

SameSlot(a, b) == Key(a) = Key(b)

SameRecord(a, b) == SameSlot(a, b) /\ Content(a) = Content(b)

\* The first desired record that existing record e matches: by content when
\* byContent, else by slot alone; 0 when there is none.
MatchIndex(e, de, byContent) ==
    FirstIndex(de, [k \in 1..Len(de) |->
        IF byContent THEN SameRecord(e, de[k]) ELSE SameSlot(e, de[k])])

\* Each existing record, in order, takes the first desired record left that
\* it matches.
RECURSIVE PairUp(_, _, _, _, _)
PairStep(ex, de, byContent, pairs, leftEx, j) ==
    IF j = 0
    THEN PairUp(Tail(ex), de, byContent, pairs, Append(leftEx, Head(ex)))
    ELSE PairUp(Tail(ex), RemoveAt(de, j), byContent,
                Append(pairs, [Existing |-> Head(ex), Desired |-> de[j]]), leftEx)

PairUp(ex, de, byContent, pairs, leftEx) ==
    IF ex = <<>> THEN [pairs |-> pairs, existing |-> leftEx, desired |-> de]
    ELSE PairStep(ex, de, byContent, pairs, leftEx, MatchIndex(Head(ex), de, byContent))

HasDuplicate(recs) ==
    \E i, j \in 1..Len(recs) : i < j /\ SameRecord(recs[i], recs[j])

\* same: the pairs of equal records and the records left on each side;
\* slot: the pairs of the records left that share a slot, and the excess.
DiffResult(same, slot) ==
    IF HasDuplicate(same.existing) \/ HasDuplicate(same.desired)
    THEN [unchanged |-> <<>>, create |-> <<>>, delete |-> <<>>, modify |-> <<>>,
          err |-> DiffErr]
    ELSE [unchanged |-> same.pairs,
          create |-> [i \in 1..Len(slot.desired) |->
                         [Existing |-> NoRecord, Desired |-> slot.desired[i]]],
          delete |-> [i \in 1..Len(slot.existing) |->
                         [Existing |-> slot.existing[i], Desired |-> NoRecord]],
          modify |-> slot.pairs,
          err |-> NoErr]

DiffOfSame(same) ==
    DiffResult(same, PairUp(same.existing, same.desired, FALSE, <<>>, <<>>))

IncrementalDiff(d, existing) ==
    DiffOfSame(PairUp(existing, d.Records, TRUE, <<>>, <<>>))

\* Correlation.String: the description of one diff entry.
CorrelationString(m) ==
    [op |-> IF m.Existing = NoRecord THEN "CREATE"
            ELSE IF m.Desired = NoRecord THEN "DELETE" ELSE "MODIFY",
     existing |-> IF m.Existing = NoRecord THEN <<>>
                  ELSE <<Key(m.Existing), Content(m.Existing)>>,
     desired |-> IF m.Desired = NoRecord THEN <<>>
                 ELSE <<Key(m.Desired), Content(m.Desired)>>]

-----------------------------------------------------------------------------
(* Observed-State Fetcher *)

\* The records-list call for one zone identifier.
GetDNSRecords(st, zoneID) ==
    IF zoneID = MainZoneID THEN st
    ELSE <<DNSRecord(90, "w.E.c", "A", "9", 300, 0, TRUE)>>

ZoneMatchesFold(zone, name) == ToLower(zone.Name) = ToLower(name)

ZoneMatches(zone, name) == zone.Name = name

\* getRecords: fail names the transport call that fails, "zones", "records"
\* or "none". The result carries the number of calls issued.
RECURSIVE ZoneLoop(_, _, _, _, _)
ZoneLoop(zoneList, st, name, fail, acc) ==
    IF zoneList = <<>> THEN acc
    ELSE LET zone == Head(zoneList)
         IN IF ZoneMatches(zone, name)
            THEN IF fail = "records"
                 THEN [acc EXCEPT !.records = <<>>, !.err = TransportErr,
                                  !.recordsListCalls = @ + 1]
                 ELSE ZoneLoop(Tail(zoneList), st, name, fail,
                               [acc EXCEPT !.records = @ \o GetDNSRecords(st, zone.ID),
                                           !.recordsListCalls = @ + 1])
            ELSE ZoneLoop(Tail(zoneList), st, name, fail, acc)

getRecords(zl, st, name, fail) ==
    IF fail = "zones"
    THEN [records |-> <<>>, err |-> TransportErr, fail |-> fail,
          zoneListCalls |-> 1, recordsListCalls |-> 0]
    ELSE ZoneLoop(zl, st, name, fail,
                  [records |-> <<>>, err |-> NoErr, fail |-> fail,
                   zoneListCalls |-> 1, recordsListCalls |-> 0])

RECURSIVE TranslateLoop(_, _, _)
TranslateStep(domain, records, existingRecords, r) ==
    IF r.err # NoErr THEN [records |-> <<>>, err |-> r.err]
    ELSE TranslateLoop(domain, Tail(records), Append(existingRecords, r.rc))

TranslateLoop(domain, records, existingRecords) ==
    IF records = <<>> THEN [records |-> existingRecords, err |-> NoErr]
    ELSE TranslateStep(domain, records, existingRecords,
                       recordToNative(domain, Head(records)))

\* g: what getRecords returned; t: the translation of its records.
ZoneRecordsResult(domain, g, t) ==
    [domain |-> domain,
     records |-> IF g.err # NoErr THEN <<>> ELSE t.records,
     err |-> IF g.err # NoErr THEN g.err ELSE t.err,
     natives |-> g.records,
     fail |-> g.fail,
     zoneListCalls |-> g.zoneListCalls,
     recordsListCalls |-> g.recordsListCalls]

TranslateFetched(domain, g) ==
    ZoneRecordsResult(domain, g, TranslateLoop(domain, g.records, <<>>))

\* GetZoneRecords; natives is what getRecords fetched and fail the transport
\* failure it met.
GetZoneRecords(zl, st, domain, fail) ==
    TranslateFetched(domain, getRecords(zl, st, domain, fail))

-----------------------------------------------------------------------------
(* GetDomainCorrections *)

\* A closure captures a variable: one shared cell for the whole loop.
CaptureShared(h, v) ==
    IF h = <<>> THEN [heap |-> <<v>>, cell |-> 1]
    ELSE [heap |-> [h EXCEPT ![Len(h)] = v], cell |-> Len(h)]

\* A closure captures a variable declared in the loop body: a cell of its own.
Capture(h, v) == [heap |-> Append(h, v), cell |-> Len(h) + 1]

\* The captured variable of a delete closure (id) and of a create closure (req).
IdCell(id) == [id |-> id, req |-> NoRecord]

ReqCell(req) == [id |-> 0, req |-> req]

Correction(msg, call, cell) == [Msg |-> msg, F |-> [call |-> call, cell |-> cell]]

\* Msg is the sequence of the values formatted into the message.
DeleteStep(m, acc) ==
    LET id == Capture(acc.heap, IdCell(m.Existing.Original.ID))
    IN [heap |-> id.heap,
        corrections |-> Append(acc.corrections,
            Correction(<<CorrelationString(m), ", Netlify DNSZoneID: ",
                         m.Existing.Original.ID>>,
                       "DeleteDNSRecord", id.cell))]

CreateStep(d, m, acc) ==
    LET req == Capture(acc.heap, ReqCell(toReq(d, m.Desired)))
    IN [heap |-> req.heap,
        corrections |-> Append(acc.corrections,
            Correction(<<CorrelationString(m)>>, "CreateDNSRecord", req.cell))]

ModifyStepCreateFirst(d, m, acc) ==
    LET id == Capture(acc.heap, IdCell(m.Existing.Original.ID))
        req == Capture(id.heap, ReqCell(toReq(d, m.Desired)))
    IN [heap |-> req.heap,
        corrections |-> acc.corrections \o
            <<Correction(<<CorrelationString(m)>>, "CreateDNSRecord", req.cell),
              Correction(<<CorrelationString(m)>>, "DeleteDNSRecord", id.cell)>>]

ModifyStepDeleteOnly(d, m, acc) ==
    LET id == Capture(acc.heap, IdCell(m.Existing.Original.ID))
    IN [heap |-> id.heap,
        corrections |-> acc.corrections \o
            <<Correction(<<CorrelationString(m)>>, "DeleteDNSRecord", id.cell)>>]

ModifyStep(d, m, acc) ==
    LET id == Capture(acc.heap, IdCell(m.Existing.Original.ID))
        req == Capture(id.heap, ReqCell(toReq(d, m.Desired)))
    IN [heap |-> req.heap,
        corrections |-> acc.corrections \o
            <<Correction(<<CorrelationString(m)>>, "DeleteDNSRecord", id.cell),
              Correction(<<CorrelationString(m)>>, "CreateDNSRecord", req.cell)>>]

RECURSIVE DeleteLoop(_, _)
DeleteLoop(entries, acc) ==
    IF entries = <<>> THEN acc
    ELSE DeleteLoop(Tail(entries), DeleteStep(Head(entries), acc))

RECURSIVE CreateLoop(_, _, _)
CreateLoop(d, entries, acc) ==
    IF entries = <<>> THEN acc
    ELSE CreateLoop(d, Tail(entries), CreateStep(d, Head(entries), acc))

RECURSIVE ModifyLoop(_, _, _)
ModifyLoop(d, entries, acc) ==
    IF entries = <<>> THEN acc
    ELSE ModifyLoop(d, Tail(entries), ModifyStep(d, Head(entries), acc))

NoDiff == [unchanged |-> <<>>, create |-> <<>>, delete |-> <<>>, modify |-> <<>>,
           err |-> NoErr]

DiffFailedNever(df) == FALSE

DiffFailed(df) == df.err # NoErr

BuildCorrectionsCreatesFirst(d, df) ==
    ModifyLoop(d, df.modify,
        DeleteLoop(df.delete,
            CreateLoop(d, df.create, [heap |-> <<>>, corrections |-> <<>>])))

\* The three loops in the order of the code: deletes, creates, modifies.
BuildCorrections(d, df) ==
    ModifyLoop(d, df.modify,
        CreateLoop(d, df.create,
            DeleteLoop(df.delete, [heap |-> <<>>, corrections |-> <<>>])))

\* The call's result once the diff is known.
CorrectionsResult(d, z, df, built) ==
    IF DiffFailed(df)
    THEN [dc |-> d, zr |-> z, diff |-> df, err |-> df.err,
          corrections |-> <<>>, heap |-> <<>>]
    ELSE [dc |-> d, zr |-> z, diff |-> df, err |-> NoErr,
          corrections |-> built.corrections, heap |-> built.heap]

DiffAndBuild(d, z, df) == CorrectionsResult(d, z, df, BuildCorrections(d, df))

Normalized(d, z) ==
    DiffAndBuild(d, z, IncrementalDiff(d, PostProcessRecords(z.records)))

AfterFetchSplitFirst(d, z) ==
    IF z.err # NoErr
    THEN [dc |-> [d EXCEPT !.Records = SplitSingleLongTxt(@)], zr |-> z,
          diff |-> NoDiff, err |-> z.err, corrections |-> <<>>, heap |-> <<>>]
    ELSE Normalized([d EXCEPT !.Records = SplitSingleLongTxt(@)], z)

\* The fetch error returns before anything else is done; otherwise the
\* desired records are split in place and the fetched ones normalised.
AfterFetch(d, z) ==
    IF z.err # NoErr
    THEN [dc |-> d, zr |-> z, diff |-> NoDiff, err |-> z.err,
          corrections |-> <<>>, heap |-> <<>>]
    ELSE Normalized([d EXCEPT !.Records = SplitSingleLongTxt(@)], z)

AfterPunycode(zl, st, d, fail) == AfterFetch(d, GetZoneRecords(zl, st, d.Name, fail))

\* The whole call: the configuration as the call leaves it, the fetch, the
\* diff, and the corrections with the variables their closures captured.
GetDomainCorrections(zl, st, d, fail) == AfterPunycode(zl, st, Punycode(d), fail)

-----------------------------------------------------------------------------
(* The provider behind the API: it stores each create request as sent and *)
(* removes each deleted identifier.                                       *)

HasRecord(st, id) == \E i \in 1..Len(st) : st[i].ID = id

HasZone(zl) == \E i \in 1..Len(zl) : zl[i].ID = MainZoneID

CanSucceed(zl, st, call, payload) ==
    IF call = "DeleteDNSRecord" THEN HasRecord(st, payload.id) ELSE HasZone(zl)

DeleteDNSRecord(st, id) == SelectSeq(st, LAMBDA r : r.ID # id)

CreateDNSRecord(st, id, req) ==
    Append(st, [ID |-> id, Hostname |-> req.Hostname, Type |-> req.Type,
                Value |-> req.Value, TTL |-> req.TTL, Priority |-> req.Priority,
                Weight |-> req.Weight, Port |-> req.Port,
                Flag |-> req.Flag, Tag |-> req.Tag, Managed |-> TRUE])

\* What the deferred action F returns: the call's error when the call
\* failed, and otherwise the call's response object.
FReturn(ok) == IF ok THEN "response" ELSE TransportErr

FCall(i, call, payload, ok) ==
    [index |-> i, call |-> call, payload |-> payload, ok |-> ok, ret |-> FReturn(ok)]

FCallsRetry(i, call, payload, ok) ==
    IF ok THEN <<FCall(i, call, payload, ok)>>
    ELSE <<FCall(i, call, payload, ok), FCall(i, call, payload, ok)>>

\* The provider calls one run of the deferred action of correction i
\* issues: the one call of its body, made once.
FCalls(i, call, payload, ok) == <<FCall(i, call, payload, ok)>>

-----------------------------------------------------------------------------
(* Provider construction *)

\* m[k] of a Go map: the empty string when the key is absent.
MapGet(m, k) == IF k \in DOMAIN m THEN m[k] ELSE ""

\* The credential maps: no token key, an empty token, a token.
ConfigMaps ==
    {[k \in {} |-> ""], [k \in {"token"} |-> ""], [k \in {"token"} |-> "tok"]}

\* No provider constructed yet.
NoProvider ==
    [built |-> FALSE, m |-> <<>>, provider |-> FALSE, token |-> "", err |-> NoErr,
     calls |-> <<>>]

ProviderOf(token) == [NoProvider EXCEPT !.provider = TRUE, !.token = token]

NoTokenErr == [NoProvider EXCEPT !.err = "no Netlify token provided"]

TokenMissingNever(m) == FALSE

TokenMissing(m) == MapGet(m, "token") = ""

\* newNetlify: the token check comes first; the rest builds the context, the
\* transport and the client, and issues no call (calls stays empty).
newNetlify(m) ==
    IF TokenMissing(m) THEN NoTokenErr ELSE ProviderOf(MapGet(m, "token"))

-----------------------------------------------------------------------------
(* Initial states *)

RECURSIVE Repeat(_, _)
Repeat(s, n) == IF n = 0 THEN "" ELSE s \o Repeat(s, n - 1)

\* A TXT value one character longer than a chunk.
LongTxt == Repeat("x", TxtChunkSize + 1)

\* A desired TXT record: its value is its one string.
DesiredTxt(label, value, ttl) ==
    SetTargetTXTString(DesiredRecord("TXT", label, "", ttl, 0), value)

DesiredPool ==
    <<DesiredRecord("A", "w", "1", 300, 0),
      DesiredRecord("A", "w", "2", 300, 0),
      DesiredRecord("CNAME", "a", "h.", 300, 0),
      DesiredRecord("MX", "@", "m.", 300, 10),
      DesiredRecord("A", "a", "1", 300, 0),
      DesiredTxt("t", LongTxt, 300)>>

\* Native records without their identifiers.
NativePool ==
    <<DNSRecord(0, "w.e.c", "A", "1", 300, 0, TRUE),
      DNSRecord(0, "w.e.c", "A", "3", 300, 0, TRUE),
      DNSRecord(0, "a.e.c", "CNAME", "@", 300, 0, TRUE),
      DNSRecord(0, "e.c", "MX", "m", 300, 10, TRUE),
      DNSRecord(0, "e.c", "NS", "dns1.p04.nsone.net", 300, 0, FALSE),
      DNSRecord(0, "a.e.c", "A", "5", 300, 0, TRUE)>>

\* The zone lists the credential may see: no zone, only a zone whose name
\* differs from dc.Name in case, and that zone followed by the zone itself.
ZoneLists ==
    {<<>>,
     <<[Name |-> "E.c", ID |-> OtherZoneID]>>,
     <<[Name |-> "E.c", ID |-> OtherZoneID], [Name |-> ZoneName, ID |-> MainZoneID]>>}

DomainArgs == {ZoneName, "E.c"}

\* The selections of at most max elements of a pool of n, in pool order:
\* with repetitions, or without.
Selections(n, max) ==
    {s \in UNION {[1..k -> 1..n] : k \in 0..max} :
        \A i \in 1..(Len(s) - 1) : s[i] <= s[i + 1]}

Subsets(n, max) ==
    {s \in Selections(n, max) : \A i \in 1..(Len(s) - 1) : s[i] < s[i + 1]}

\* No record is on its way through the Record Translator.
NoRoundTrip ==
    [stage |-> "idle", native |-> NoRecord, rc |-> NoRecord, req |-> NoRecord,
     stored |-> NoRecord, again |-> NoRecord]

\* The native records the Record Translator is applied to: every record
\* type with each kind of target, at the apex and below it.
TranslatedTypes == {"A", "CNAME", "MX", "NS", "SRV", "TXT", "CAA"}

NativeOf(hostname, type, value, ttl, priority) ==
    [DNSRecord(1, hostname, type, value, ttl, priority, TRUE)
        EXCEPT !.Flag = IF type = "CAA" THEN 128 ELSE 0,
               !.Tag = IF type = "CAA" THEN "issue" ELSE ""]

TranslatedNatives ==
    {NativeOf(hostname, type, value, ttl, priority) :
        hostname \in {"w.e.c", ZoneName}, type \in TranslatedTypes,
        value \in {"1", "h", "@", "."}, ttl \in {300, 3600}, priority \in {0, 10}}

NoFetch ==
    [domain |-> "", records |-> <<>>, err |-> NoErr, natives |-> <<>>,
     fail |-> "none", zoneListCalls |-> 0, recordsListCalls |-> 0]

Init ==
    /\ zones \in ZoneLists
    /\ \E s \in Subsets(Len(NativePool), MaxLive) :
          /\ HasZone(zones) \/ s = <<>>
          /\ store = [i \in 1..Len(s) |-> [NativePool[s[i]] EXCEPT !.ID = i]]
          /\ nextID = Len(s) + 1
    /\ \E s \in Selections(Len(DesiredPool), MaxDesired) :
          dc = [Name |-> ZoneName, Records |-> [i \in 1..Len(s) |-> DesiredPool[s[i]]]]
    /\ zr = NoFetch
    /\ gdc = [err |-> NoErr, diff |-> NoDiff]
    /\ corrections = <<>>
    /\ heap = <<>>
    /\ pc = 1
    /\ sent = <<>>
    /\ pass = 0
    /\ prev = "none"
    /\ api = NoProvider
    /\ rt = NoRoundTrip

-----------------------------------------------------------------------------
(* Actions *)

AllSentOk == \A i \in 1..Len(sent) : sent[i].ok

\* The pass in progress ran all its corrections and every call succeeded.
PassComplete == gdc.err = NoErr /\ pc > Len(corrections) /\ AllSentOk

\* The orchestrator constructs the provider from its credential map, once.
NewNetlifyOp ==
    /\ ~api.built
    /\ \E m \in ConfigMaps : api' = [newNetlify(m) EXCEPT !.built = TRUE, !.m = m]
    /\ UNCHANGED <<zones, store, nextID, dc, zr, gdc, corrections, heap, pc, sent, pass, prev, rt>>

\* The orchestrator fetches the records of a zone, before the first pass
\* (the later fetches are those GetDomainCorrections makes).
GetZoneRecordsOp ==
    /\ api.provider
    /\ pass = 0
    /\ \E domain \in DomainArgs, fail \in {"none", "zones", "records"} :
          zr' = GetZoneRecords(zones, store, domain, fail)
    /\ UNCHANGED <<zones, store, nextID, dc, gdc, corrections, heap, pc, sent, pass, prev, api, rt>>

\* The pass in progress is over: every correction ran, or a call failed and
\* the orchestrator skipped the rest.
PassOver == pc > Len(corrections) \/ ~AllSentOk

Returned(r) ==
    /\ dc' = r.dc
    /\ zr' = r.zr
    /\ gdc' = [err |-> r.err, diff |-> r.diff]
    /\ corrections' = r.corrections
    /\ heap' = r.heap

\* The orchestrator starts a pass.
GetDomainCorrectionsOp ==
    /\ api.provider
    /\ pass < MaxPasses
    /\ PassOver
    /\ \E fail \in {"none", "zones", "records"} :
          Returned(GetDomainCorrections(zones, store, dc, fail))
    /\ pc' = 1
    /\ sent' = <<>>
    /\ pass' = pass + 1
    /\ prev' = IF pass = 0 THEN "none"
               ELSE IF gdc.err # NoErr THEN "failed"
               ELSE IF PassComplete THEN "complete" ELSE "partial"
    /\ UNCHANGED <<zones, store, nextID, api, rt>>

\* The orchestrator runs the deferred action of the next correction; the
\* provider call it issues succeeds or fails.
ExecuteCorrection ==
    /\ ~PassOver
    /\ LET c == corrections[pc]
           payload == heap[c.F.cell]
       IN \E ok \in BOOLEAN :
             /\ ok => CanSucceed(zones, store, c.F.call, payload)
             /\ sent' = sent \o FCalls(pc, c.F.call, payload, ok)
             /\ store' = IF ~ok THEN store
                         ELSE IF c.F.call = "DeleteDNSRecord"
                              THEN DeleteDNSRecord(store, payload.id)
                              ELSE CreateDNSRecord(store, nextID, payload.req)
             /\ nextID' = IF ok /\ c.F.call = "CreateDNSRecord" THEN nextID + 1 ELSE nextID
    /\ pc' = pc + 1
    /\ UNCHANGED <<zones, dc, zr, gdc, corrections, heap, pass, prev, api, rt>>

Next == NewNetlifyOp \/ GetZoneRecordsOp \/ GetDomainCorrectionsOp \/ ExecuteCorrection

Spec == Init /\ [][Next]_vars

-----------------------------------------------------------------------------
(* The Record Translator on its own: a native record is translated, turned
   into a create request, stored by the provider, and translated again. *)

mainVars == <<zones, store, nextID, dc, zr, gdc, corrections, heap, pc, sent, pass, prev, api>>

TranslatorInit ==
    /\ zones = <<[Name |-> ZoneName, ID |-> MainZoneID]>>
    /\ store = <<>>
    /\ nextID = 1
    /\ dc = [Name |-> ZoneName, Records |-> <<>>]
    /\ zr = NoFetch
    /\ gdc = [err |-> NoErr, diff |-> NoDiff]
    /\ corrections = <<>>
    /\ heap = <<>>
    /\ pc = 1
    /\ sent = <<>>
    /\ pass = 0
    /\ prev = "none"
    /\ api = NoProvider
    /\ \E r \in TranslatedNatives : rt = [NoRoundTrip EXCEPT !.stage = "native", !.native = r]

\* recordToNative on the native record
TranslateNative ==
    /\ rt.stage = "native"
    /\ rt' = [rt EXCEPT !.stage = "canonical", !.rc = recordToNative(dc.Name, rt.native).rc]
    /\ UNCHANGED mainVars

\* toReq on the canonical record
BuildRequest ==
    /\ rt.stage = "canonical"
    /\ rt' = [rt EXCEPT !.stage = "request", !.req = toReq(dc, rt.rc)]
    /\ UNCHANGED mainVars

\* the provider stores the request and returns its copy
StoreRequest ==
    /\ rt.stage = "request"
    /\ rt' = [rt EXCEPT !.stage = "stored",
                        !.stored = CreateDNSRecord(store, nextID, rt.req)[Len(store) + 1]]
    /\ UNCHANGED mainVars

\* recordToNative on the provider's copy
TranslateStored ==
    /\ rt.stage = "stored"
    /\ rt' = [rt EXCEPT !.stage = "again", !.again = recordToNative(dc.Name, rt.stored).rc]
    /\ UNCHANGED mainVars

TranslatorNext == TranslateNative \/ BuildRequest \/ StoreRequest \/ TranslateStored

TranslatorSpec == TranslatorInit /\ [][TranslatorNext]_vars

-----------------------------------------------------------------------------
(* Vocabulary of the properties *)

IsDelete(c) == c.F.call = "DeleteDNSRecord"

IsCreate(c) == c.F.call = "CreateDNSRecord"

\* A list was returned by the last GetDomainCorrections.
Planned == pass > 0 /\ gdc.err = NoErr

\* The slot a correction acts on.
SlotOf(c) == IF IsCreate(c) THEN c.Msg[1].desired[1] ELSE c.Msg[1].existing[1]

Sig(rc) == <<Key(rc), Content(rc)>>

\* Correction i deletes the existing record of entry m.
DeletesFor(i, m) ==
    /\ IsDelete(corrections[i])
    /\ corrections[i].Msg[1] = CorrelationString(m)
    /\ heap[corrections[i].F.cell] = IdCell(m.Existing.Original.ID)

\* Correction i creates the desired record of entry m.
CreatesFor(i, m) ==
    /\ IsCreate(corrections[i])
    /\ corrections[i].Msg[1] = CorrelationString(m)
    /\ heap[corrections[i].F.cell] = ReqCell(toReq(dc, m.Desired))

Indexes == 1..Len(corrections)

SameBag(a, b) ==
    /\ Len(a) = Len(b)
    /\ \A i \in 1..Len(a) :
          Cardinality({k \in 1..Len(a) : a[k] = a[i]})
              = Cardinality({k \in 1..Len(b) : b[k] = a[i]})

\* The live zone, fetched and translated now, holds the desired records.
LiveEqualsDesired ==
    SameBag([i \in 1..Len(store) |->
                Sig(PostProcessRecords(<<recordToNative(dc.Name, store[i]).rc>>)[1])],
            [i \in 1..Len(dc.Records) |-> Sig(dc.Records[i])])

-----------------------------------------------------------------------------
(* Properties *)

\* C1: in the returned list every delete correction (pure deletes and the
\* delete half of every modify) comes before every create correction (pure
\* creates and the create half of every modify).
C1_AllDeletesBeforeAllCreates ==
    \A i, j \in Indexes :
        IsCreate(corrections[i]) /\ IsDelete(corrections[j]) => j < i

\* C2: for every modify entry of the diff, the delete correction built from
\* its existing record is in the returned list strictly before the create
\* correction built from its desired record, for all modify entries at once.
C2_ModifyDeleteBeforeCreate ==
    Planned =>
        \A k \in 1..Len(gdc.diff.modify) :
            /\ \E i, j \in Indexes :
                  /\ i < j
                  /\ DeletesFor(i, gdc.diff.modify[k])
                  /\ CreatesFor(j, gdc.diff.modify[k])
            /\ \A i, j \in Indexes :
                  DeletesFor(i, gdc.diff.modify[k]) /\ CreatesFor(j, gdc.diff.modify[k])
                      => i < j

\* C2 witness: a returned list built from two modify entries.
C2_Witness == Planned /\ Len(gdc.diff.modify) >= 2

\* C3: for every slot, no create correction for the slot is in the returned
\* list before a delete correction for the same slot.
C3_NoCreateBeforeDeleteInSlot ==
    \A i, j \in Indexes :
        /\ i < j
        /\ IsCreate(corrections[i])
        /\ IsDelete(corrections[j])
        => SlotOf(corrections[i]) # SlotOf(corrections[j])

\* C4: after a pass whose corrections were all executed, in order and with
\* success, the next GetDomainCorrections returns an empty list.
C4_SecondPassEmpty ==
    Planned /\ prev = "complete" => corrections = <<>>

\* C5: after a pass that stopped at a failed call, a new pass computed from
\* the live zone and executed completely leaves the live records equal to
\* the desired records.
C5_RerunConverges ==
    Planned /\ prev = "partial" /\ PassComplete => LiveEqualsDesired

\* C6: when the zone-list call, the records-list call, the translation of
\* an observed record or the diff reports an error, GetDomainCorrections
\* returns that error and no correction, and no create or delete call is
\* issued.
C6_NoPartialList ==
    pass > 0 =>
        /\ zr.err # NoErr => gdc.err = zr.err
        /\ zr.err = NoErr /\ gdc.diff.err # NoErr => gdc.err = gdc.diff.err
        /\ gdc.err # NoErr => corrections = <<>> /\ heap = <<>> /\ sent = <<>>

\* C6 witness: a call that ended with the error of the diff.
C6_Witness == pass > 0 /\ zr.err = NoErr /\ gdc.err = DiffErr /\ Len(zr.records) > 0

\* C7: if a fetched native record is not managed, GetZoneRecords fails and
\* returns no record at all; each record of a successful result comes from
\* a managed native record.
C7_UnmanagedFailsFetch ==
    /\ (\E i \in 1..Len(zr.natives) : ~zr.natives[i].Managed)
          => zr.err # NoErr /\ zr.records = <<>>
    /\ zr.err = NoErr =>
          /\ Len(zr.records) = Len(zr.natives)
          /\ \A i \in 1..Len(zr.records) :
                zr.records[i].Original = zr.natives[i] /\ zr.natives[i].Managed

\* C7 witness: a fetch that met a managed record and then an unmanaged one.
C7_Witness ==
    /\ Len(zr.natives) = 2
    /\ zr.natives[1].Managed
    /\ ~zr.natives[2].Managed
    /\ zr.err # NoErr

\* C8: when the zone list holds no zone of exactly the requested name, the
\* fetch returns no record and no error after one zone-list call and no
\* records-list call; when a zone matches and has no record, the fetch
\* returns no record and no error.
C8_NoZoneOrNoRecords ==
    zr.domain # "" /\ zr.fail # "zones" =>
        /\ (\A i \in 1..Len(zones) : zones[i].Name # zr.domain)
              => /\ zr.records = <<>>
                 /\ zr.err = NoErr
                 /\ zr.zoneListCalls = 1
                 /\ zr.recordsListCalls = 0
        /\ ((\E i \in 1..Len(zones) : zones[i].Name = zr.domain)
               /\ zr.fail = "none" /\ zr.natives = <<>>)
              => zr.records = <<>> /\ zr.err = NoErr /\ zr.recordsListCalls >= 1

\* C8 witness: a fetch of a name that only a zone of another case carries.
C8_Witness ==
    /\ zr.domain = ZoneName
    /\ zr.fail = "none"
    /\ Len(zones) = 1
    /\ zones[1].Name = "E.c"
    /\ zr.zoneListCalls = 1

\* C9: the returned list holds exactly one delete correction for each
\* delete entry of the diff, one create correction for each create entry,
\* one delete and one create correction for each modify entry, and nothing
\* else; one desired record against an empty zone gives one create, and no
\* desired record against a zone of one record gives one delete.
C9_OneCorrectionPerEntry ==
    Planned =>
        /\ Len(corrections) = Len(gdc.diff.delete) + Len(gdc.diff.create)
                                  + 2 * Len(gdc.diff.modify)
        /\ \A k \in 1..Len(gdc.diff.delete) :
              Cardinality({i \in Indexes : DeletesFor(i, gdc.diff.delete[k])}) = 1
        /\ \A k \in 1..Len(gdc.diff.create) :
              Cardinality({i \in Indexes : CreatesFor(i, gdc.diff.create[k])}) = 1
        /\ \A k \in 1..Len(gdc.diff.modify) :
              /\ Cardinality({i \in Indexes : DeletesFor(i, gdc.diff.modify[k])}) = 1
              /\ Cardinality({i \in Indexes : CreatesFor(i, gdc.diff.modify[k])}) = 1
        /\ Len(dc.Records) = 1 /\ zr.records = <<>>
              => /\ Len(corrections) = 1
                 /\ IsCreate(corrections[1])
                 /\ heap[corrections[1].F.cell] = ReqCell(toReq(dc, dc.Records[1]))
        /\ dc.Records = <<>> /\ Len(zr.records) = 1
              => /\ Len(corrections) = 1
                 /\ IsDelete(corrections[1])
                 /\ heap[corrections[1].F.cell] = IdCell(zr.natives[1].ID)

\* C9 witness: a returned list built from a delete, a create and a modify
\* entry.
C9_Witness ==
    /\ Planned
    /\ Len(gdc.diff.delete) >= 1
    /\ Len(gdc.diff.create) >= 1
    /\ Len(gdc.diff.modify) >= 1

\* C10: whenever the action of a correction is executed, its delete call
\* carries the identifier of the existing record its description names and
\* its create call the request built from the desired record its
\* description names; no two corrections share a captured variable.
C10_OwnPayload ==
    /\ \A i, j \in Indexes :
          i # j => corrections[i].F.cell # corrections[j].F.cell
    /\ \A n \in 1..Len(sent) :
          IF sent[n].call = "DeleteDNSRecord"
          THEN /\ sent[n].payload.req = NoRecord
               /\ \E k \in 1..Len(zr.natives) :
                     /\ zr.natives[k].ID = sent[n].payload.id
                     /\ Sig(PostProcessRecords(zr.records)[k])
                            = corrections[sent[n].index].Msg[1].existing
          ELSE \E k \in 1..Len(dc.Records) :
                  /\ sent[n].payload = ReqCell(toReq(dc, dc.Records[k]))
                  /\ Sig(dc.Records[k]) = corrections[sent[n].index].Msg[1].desired

\* C10 witness: the delete and the create of two different entries were
\* executed, with a further correction built after them.
C10_Witness ==
    /\ Len(sent) >= 2
    /\ sent[1].call = "DeleteDNSRecord"
    /\ sent[2].call = "CreateDNSRecord"
    /\ corrections[1].Msg[1].op = "DELETE"
    /\ corrections[2].Msg[1].op = "CREATE"
    /\ Len(corrections) >= 3

-----------------------------------------------------------------------------
(* Record Translator properties, under TranslatorSpec *)

Translated == rt.stage \in {"canonical", "request", "stored", "again"}

\* The semantic fields the round trip is about.
Semantic(rc) ==
    [name |-> rc.Name, type |-> rc.Type, target |-> rc.target, ttl |-> rc.TTL,
     priority |-> <<rc.MxPreference, rc.SrvPriority>>, weight |-> rc.SrvWeight,
     port |-> rc.SrvPort, flag |-> rc.CaaFlag, tag |-> rc.CaaTag]

\* C11: a native record translated by recordToNative, turned into a create
\* request by toReq, stored by the provider and translated again by
\* recordToNative has the same name, type, target, TTL, priority, weight,
\* port, flag and tag as after the first translation.
C11_RoundTrip ==
    rt.stage = "again" => Semantic(rt.again) = Semantic(rt.rc)

\* C12: a native CNAME, MX, NS or SRV record with target "@" gets the zone
\* name followed by a dot as its canonical target; a record of any other
\* type keeps its target unchanged.
C12_AtIsZoneFqdn ==
    Translated =>
        /\ (IsRelationalType(rt.native.Type) /\ rt.native.Value = "@")
              => rt.rc.target = ZoneName \o "."
        /\ ~IsRelationalType(rt.native.Type) => rt.rc.target = rt.native.Value

C12_Witness ==
    /\ rt.stage = "canonical"
    /\ rt.native.Type = "CNAME"
    /\ rt.native.Value = "@"

\* C13 as stated: a native CNAME, MX, NS or SRV record with target "." gets
\* the empty string as its canonical target, and the trailing dot is added
\* only to targets other than "@" and ".".
C13_RootBecomesEmpty ==
    (Translated /\ IsRelationalType(rt.native.Type)) =>
        /\ rt.native.Value = "." => rt.rc.target = ""
        /\ rt.native.Value = "@" => rt.rc.target = ZoneName
        /\ rt.native.Value \notin {"@", "."} => rt.rc.target = rt.native.Value \o "."

\* C13: a native CNAME, MX, NS or SRV record with target "." has the
\* canonical target ".": the target is rewritten to the empty string and the
\* trailing dot is then added as it is to every target of these types.
C13_RootKeepsDot ==
    (Translated /\ IsRelationalType(rt.native.Type)) =>
        /\ rt.native.Value = "." => rt.rc.target = "."
        /\ IsFqdn(rt.rc.target)
        /\ rt.native.Value \notin {"@", "."} => rt.rc.target = rt.native.Value \o "."

C13_Witness ==
    /\ rt.stage = "canonical"
    /\ rt.native.Type = "MX"
    /\ rt.native.Value = "."

-----------------------------------------------------------------------------
(* Frame of GetDomainCorrections, under Spec *)

\* A step of GetDomainCorrectionsOp.
PassStarts == pass' # pass

RECURSIVE Concat(_)
Concat(strs) == IF strs = <<>> THEN "" ELSE Head(strs) \o Concat(Tail(strs))

\* A TXT record holding one string longer than a chunk.
IsLongTxt(rc) ==
    rc.Type = "TXT" /\ Len(rc.TxtStrings) = 1 /\ Len(rc.TxtStrings[1]) > TxtChunkSize

\* Record `after` is record `before` with its one string cut into chunks.
IsSplitOf(after, before) ==
    /\ [after EXCEPT !.TxtStrings = <<>>, !.target = ""]
         = [before EXCEPT !.TxtStrings = <<>>, !.target = ""]
    /\ Len(after.TxtStrings) > 1
    /\ \A k \in 1..Len(after.TxtStrings) : Len(after.TxtStrings[k]) <= TxtChunkSize
    /\ Concat(after.TxtStrings) = before.TxtStrings[1]

\* C14 as stated: a call to GetDomainCorrections leaves the desired
\* configuration passed in as it was, every record with the same name,
\* target and fields as before the call.
C14_DesiredUnchanged == [][PassStarts => dc' = dc]_vars

\* C14: a call to GetDomainCorrections leaves every desired record as it
\* was, except a TXT record holding one string longer than 255 characters
\* when the fetch succeeded: that record is rewritten in place, its string
\* cut into chunks of at most 255 characters that concatenate to the string.
\* A call whose fetch fails rewrites nothing.
C14_OnlyLongTxtSplit ==
    [][PassStarts =>
          /\ dc'.Name = dc.Name
          /\ Len(dc'.Records) = Len(dc.Records)
          /\ \A i \in 1..Len(dc.Records) :
                IF IsLongTxt(dc.Records[i]) /\ zr'.err = NoErr
                THEN IsSplitOf(dc'.Records[i], dc.Records[i])
                ELSE dc'.Records[i] = dc.Records[i]]_vars

\* A call has split a long TXT record of the desired configuration and
\* returned a correction for it.
C14_Witness ==
    /\ Planned
    /\ \E i \in 1..Len(dc.Records) :
          dc.Records[i].Type = "TXT" /\ Len(dc.Records[i].TxtStrings) = 2
    /\ corrections # <<>>

-----------------------------------------------------------------------------
(* Provider construction, under Spec *)

NoCallYet == zr = NoFetch /\ pass = 0 /\ sent = <<>>

\* C15: newNetlify given no token or an empty one returns an error and no
\* provider, and no call reaches the network, then or later; given a token
\* it returns the provider and no error, and has issued no call itself.
C15_TokenRequired ==
    api.built =>
        /\ MapGet(api.m, "token") = ""
              => (api.err # NoErr /\ ~api.provider /\ NoCallYet)
        /\ MapGet(api.m, "token") # ""
              => (api.err = NoErr /\ api.provider /\ api.token = api.m["token"])
        /\ api.calls = <<>>

\* newNetlify was given a map with an empty token.
C15_Witness ==
    /\ api.built
    /\ "token" \in DOMAIN api.m
    /\ api.m["token"] = ""

-----------------------------------------------------------------------------
(* CNAME conflicts while the corrections are applied, under Spec *)

\* Some name of the live zone holds a CNAME together with another record.
LiveConflict(st) ==
    \E i, j \in 1..Len(st) :
        i # j /\ st[i].Type = "CNAME" /\ ToLower(st[i].Hostname) = ToLower(st[j].Hostname)

\* Some name of the desired zone holds a CNAME together with another record.
DesiredConflict(recs) ==
    \E i, j \in 1..Len(recs) :
        i # j /\ recs[i].Type = "CNAME" /\ recs[i].NameFQDN = recs[j].NameFQDN

\* C16: when no name of the desired zone and no name of the live zone holds
\* a CNAME together with another record, no step (the execution of the next
\* correction of the list included) leads to a live zone in which some name
\* holds a CNAME together with another record.
C16_NoTransientConflict ==
    [][(~DesiredConflict(dc.Records) /\ ~LiveConflict(store)) => ~LiveConflict(store')]_vars

\* A pass that changed the type of a name from CNAME to another type, or
\* from another type to CNAME, was executed to its end.
C16_Witness ==
    /\ PassComplete
    /\ Planned
    /\ ~DesiredConflict(dc.Records)
    /\ ~LiveConflict(store)
    /\ \E i, j \in Indexes :
          /\ IsDelete(corrections[i])
          /\ IsCreate(corrections[j])
          /\ SlotOf(corrections[i])[1] = SlotOf(corrections[j])[1]
          /\ SlotOf(corrections[i])[2] # SlotOf(corrections[j])[2]
          /\ "CNAME" \in {SlotOf(corrections[i])[2], SlotOf(corrections[j])[2]}

-----------------------------------------------------------------------------
(* Provider calls of planning and of execution, under Spec *)

IsMutation(call) == call \in {"CreateDNSRecord", "DeleteDNSRecord"}

\* C17: a call to GetDomainCorrections issues one zone-list call and at most
\* one records-list call per zone, no create and no delete call, and leaves
\* the live zone as it is; the live zone changes and a create or delete call
\* is issued only in a step that executes the next correction, and such a
\* step issues exactly one call, the one of that correction.
C17_PlanningIssuesNoMutation ==
    [][/\ PassStarts =>
             /\ store' = store
             /\ nextID' = nextID
             /\ sent' = <<>>
             /\ zr'.zoneListCalls = 1
             /\ zr'.recordsListCalls <= Len(zones)
       /\ (~PassStarts /\ (store' # store \/ sent' # sent)) =>
             /\ pc' = pc + 1
             /\ Len(sent') = Len(sent) + 1
             /\ SubSeq(sent', 1, Len(sent)) = sent
             /\ sent'[Len(sent')].index = pc
             /\ sent'[Len(sent')].call = corrections[pc].F.call
             /\ IsMutation(sent'[Len(sent')].call)]_vars

\* A list with a delete and a create was planned on a zone with records,
\* its first call failed and nothing else was sent.
C17_Witness ==
    /\ Planned
    /\ Len(corrections) > 1
    /\ store # <<>>
    /\ Len(sent) = 1
    /\ ~sent[1].ok
    /\ pc = 2

-----------------------------------------------------------------------------
(* What the deferred action reports, under Spec *)

\* C18: the deferred action of an executed correction returns an error
\* exactly when its provider call failed: no error when the call succeeded,
\* the call's error when it failed.
C18_ErrorIffCallFailed ==
    \A i \in 1..Len(sent) :
        /\ sent[i].ok => sent[i].ret = NoErr
        /\ ~sent[i].ok => sent[i].ret = TransportErr

====
